---------------------------- MODULE Spec2Model ----------------------------
(***************************************************************************)
(* git-cycle-time (src/bin/index.js): one invocation of the `run` command. *)
(*                                                                         *)
(* The program is an async pipeline: every `await runShellCommand(...)`    *)
(* splits it into a segment that issues the command and a continuation     *)
(* that runs when child_process.exec calls back.  An action of this model  *)
(* is one such segment, from the callback up to the next exec (or up to    *)
(* the end of the run).  The external commands (git) are the environment:  *)
(* each returns a stdout or fails, chosen nondeterministically.            *)
(*                                                                         *)
(* JavaScript numbers are modelled as NaN or an exact reduced fraction     *)
(* [nan, num, den]; text is modelled as the sequence of its lines, a line  *)
(* as the sequence of its space-separated tokens (<<>> is the empty line). *)
(***************************************************************************)
EXTENDS Integers, Sequences, FiniteSets

(***************************************************************************)
(* Bounds of the model.                                                    *)
(***************************************************************************)
\* the most tags the repository holds
MaxTags == 3

(***************************************************************************)
(* JavaScript numbers.                                                     *)
(***************************************************************************)
NaN == [nan |-> TRUE, num |-> 0, den |-> 1]

Num(n) == [nan |-> FALSE, num |-> n, den |-> 1]

RECURSIVE GCD(_, _)
GCD(a, b) == IF b = 0 THEN a ELSE GCD(b, a % b)

IAbs(n) == IF n < 0 THEN -n ELSE n

\* the number n/d (d > 0), in lowest terms
Rat(n, d) ==
    LET g == GCD(IAbs(n), d)
    IN  [nan |-> FALSE, num |-> n \div g, den |-> d \div g]

\* Math.abs(a)
NAbs(a) == IF a.nan THEN NaN ELSE [a EXCEPT !.num = IAbs(a.num)]

\* a - b
NSub(a, b) ==
    IF a.nan \/ b.nan THEN NaN
    ELSE Rat(a.num * b.den - b.num * a.den, a.den * b.den)

\* a + b
NAdd(a, b) ==
    IF a.nan \/ b.nan THEN NaN
    ELSE Rat(a.num * b.den + b.num * a.den, a.den * b.den)

\* a / k for a positive integer k
NDiv(a, k) == IF a.nan THEN NaN ELSE Rat(a.num, a.den * k)

\* a < b: false as soon as one side is NaN
NLt(a, b) == ~a.nan /\ ~b.nan /\ a.num * b.den < b.num * a.den

\* a > b: false as soon as one side is NaN
NGt(a, b) == ~a.nan /\ ~b.nan /\ a.num * b.den > b.num * a.den

\* !a for a number: NaN and 0 are falsy
Falsy(a) == a.nan \/ a.num = 0

\* a.toFixed(): the nearest integer, a tie going away from zero; "NaN" for NaN
ToFixed(a) ==
    IF a.nan THEN NaN
    ELSE IF a.num >= 0 THEN Num((2 * a.num + a.den) \div (2 * a.den))
    ELSE Num(-((2 * (-a.num) + a.den) \div (2 * a.den)))

\* Date.parse on the date strings of the model: milliseconds since the epoch,
\* NaN for a string that is no date (the empty string included)
DateParse(s) ==
    CASE s = "1970-01-01T00:00:00Z" -> Num(0)
      [] s = "1970-01-01T00:30:00Z" -> Num(1800000)
      [] s = "1970-01-01T01:00:00Z" -> Num(3600000)
      [] s = "1970-01-01T02:00:00Z" -> Num(7200000)
      [] s = "1970-01-01T03:00:00Z" -> Num(10800000)
      [] OTHER -> NaN

(***************************************************************************)
(* The pure helpers of the program.                                        *)
(***************************************************************************)
\* an absent value (undefined / null)
Undefined == [undefined |-> TRUE]

\* parseTagLine: null for the empty line, else the first token and the parse
\* of what follows it
parseTagLine(tagLine) ==
    IF Len(tagLine) = 0 THEN Undefined
    ELSE [tag |-> tagLine[1],
          date |-> IF Len(tagLine) = 2 THEN DateParse(tagLine[2]) ELSE NaN]

RECURSIVE Sum(_, _)
\* data.reduce((a, b) => a + b) over data[1..i]
Sum(data, i) ==
    IF i = 1 THEN data[1] ELSE NAdd(Sum(data, i - 1), data[i])

\* mean with the empty collection averaging to 0
meanZeroWhenEmpty(data) ==
    IF Len(data) = 0 THEN Num(0)
    ELSE NDiv(Sum(data, Len(data)), Len(data))

mean(data) ==
    IF Len(data) = 0 THEN NaN
    ELSE NDiv(Sum(data, Len(data)), Len(data))

\* x / 1000 / 60 / 60
ToHours(x) == NDiv(NDiv(NDiv(x, 1000), 60), 60)

At(a, i) == IF i \in 1..Len(a) THEN a[i] ELSE Undefined

zip(a, b) ==
    [i \in 1..(IF Len(b) > Len(a) THEN Len(b) ELSE Len(a)) |-> <<At(a, i), At(b, i)>>]

\* tag.match(regexp) for the patterns of the model
Matches(tag, regexp) ==
    CASE regexp = "^v" -> tag \in {"v1", "v2", "v3", "v4", "v5"}
      [] OTHER -> TRUE

(***************************************************************************)
(* The environment: the command line and the repository.                   *)
(***************************************************************************)
\* an option that was not given on the command line
Missing == "undefined"

\* the command lines of the model
Argvs ==
    [path : {"", "repo"},
     startDate : {Missing, "yesterday-ish", "1970-01-01T00:00:00Z", "1970-01-01T01:00:00Z"},
     endDate : {"", "tomorrow-ish", "1970-01-01T02:00:00Z"},
     regexp : {Missing, "^v"},
     lightweight : BOOLEAN]

ReleaseNames == <<"v1", "v2", "v3", "v4", "v5">>

OtherNames == <<"rc1", "rc2", "rc3", "rc4", "rc5">>

\* the date column of a tag line, in the order git sorts it; it is empty for a
\* tag that has no such date (the taggerdate of a lightweight tag)
TagDates ==
    <<"", "1970-01-01T00:00:00Z", "1970-01-01T01:00:00Z",
      "1970-01-01T02:00:00Z", "1970-01-01T03:00:00Z">>

\* the outputs of git for-each-ref --sort=<date>: at most MaxTags lines
\* "<tag> <date>", ascending by that date, the tags without one first
TagLists ==
    UNION {
      { [i \in 1..n |-> <<IF g[i][2] THEN ReleaseNames[i] ELSE OtherNames[i],
                          TagDates[g[i][1]]>>] :
          g \in { h \in [1..n -> (1..Len(TagDates)) \X BOOLEAN] :
                    \A i \in 1..(n - 1) : h[i][1] <= h[i + 1][1] } } :
      n \in 0..MaxTags }

\* the outputs of git cherry <upstream> <head>: lines "<+|-> <sha>"
CherryOutputs ==
    { <<>>,
      << <<"+", "c1">> >>,
      << <<"-", "c1">>, <<"+", "c2">> >>,
      << <<"+", "c1">>, <<"+", "c2">> >> }

\* the output of git log -n 1 --format=format:%cI <sha>
CommitDate(sha) ==
    CASE sha = "c1" -> "1970-01-01T00:30:00Z"
      [] sha = "c2" -> "1970-01-01T02:00:00Z"
      [] OTHER -> ""

\* stdout.split("\n") of an output whose lines each end in a newline
SplitLines(stdout) == stdout \o << <<>> >>

(***************************************************************************)
(* The state of one run.                                                   *)
(***************************************************************************)
VARIABLES
    argv,                     \* the command line
    pc,                       \* "cli", "awaitTags", "awaitCherry", "awaitLog", "exited"
    startDate, endDate,       \* execute's parsed dates
    releaseCommits,           \* calculateCycleTime: the selected tag records
    zi,                       \* index of the current pair in zippedReleases
    durationsData,            \* calculateCycleTime: the combined durations
    numberOfReleasesInPeriod,
    commitsDiff,              \* getDurationsForRelease: the lines of the cherry output
    ci,                       \* index of the current line of commitsDiff
    commitDates,              \* getDurationsForRelease: the commit times so far
    result,                   \* what calculateCycleTime returned
    out,                      \* the lines printed on the console
    calls,                    \* the external commands started, with their outcome
    exitCode                  \* the exit status of the process

vars ==
    <<argv, pc, startDate, endDate, releaseCommits, zi, durationsData,
      numberOfReleasesInPeriod, commitsDiff, ci, commitDates, result, out,
      calls, exitCode>>

\* the mutable state as one record, so that a segment of the program is a
\* function from state to state
Cur ==
    [pc |-> pc, startDate |-> startDate, endDate |-> endDate,
     releaseCommits |-> releaseCommits, zi |-> zi,
     durationsData |-> durationsData,
     numberOfReleasesInPeriod |-> numberOfReleasesInPeriod,
     commitsDiff |-> commitsDiff, ci |-> ci, commitDates |-> commitDates,
     result |-> result, out |-> out, calls |-> calls, exitCode |-> exitCode]

Becomes(s) ==
    /\ pc' = s.pc
    /\ startDate' = s.startDate
    /\ endDate' = s.endDate
    /\ releaseCommits' = s.releaseCommits
    /\ zi' = s.zi
    /\ durationsData' = s.durationsData
    /\ numberOfReleasesInPeriod' = s.numberOfReleasesInPeriod
    /\ commitsDiff' = s.commitsDiff
    /\ ci' = s.ci
    /\ commitDates' = s.commitDates
    /\ result' = s.result
    /\ out' = s.out
    /\ calls' = s.calls
    /\ exitCode' = s.exitCode
    /\ UNCHANGED argv

Init ==
    /\ argv \in Argvs
    /\ pc = "cli"
    /\ startDate = NaN
    /\ endDate = NaN
    /\ releaseCommits = <<>>
    /\ zi = 0
    /\ durationsData = <<>>
    /\ numberOfReleasesInPeriod = 0
    /\ commitsDiff = <<>>
    /\ ci = 0
    /\ commitDates = <<>>
    /\ result = Undefined
    /\ out = <<>>
    /\ calls = <<>>
    /\ exitCode = 0

(***************************************************************************)
(* The segments of the program.                                            *)
(***************************************************************************)
\* console.log of an error
LogError(s, error) ==
    [s EXCEPT !.out = Append(@, [kind |-> "error", text |-> error])]

\* execute throws: the handler's catch prints the error and the process ends
\* with the exit status it has
Throw(s, error) == [LogError(s, error) EXCEPT !.pc = "exited"]

\* runShellCommand up to exec: the command is started.  The entry of the log
\* also keeps how many lines the console held at that moment (printed)
Exec(s, cmd, args, at) ==
    [s EXCEPT !.calls = Append(@, [cmd |-> cmd, args |-> args,
                                   status |-> "pending", stdout |-> <<>>,
                                   printed |-> Len(s.out)]),
              !.pc = at]

\* exec calls back with stdout
Resolved(s, stdout) ==
    [s EXCEPT !.calls[Len(s.calls)].status = "ok",
              !.calls[Len(s.calls)].stdout = stdout]

\* a.slice(1)
Slice1(a) == IF Len(a) = 0 THEN <<>> ELSE Tail(a)

zippedReleases(s) == zip(s.releaseCommits, Slice1(s.releaseCommits))

\* the pair test with <= in place of <
SkippedUpToStart(release, start) ==
    release[2] = Undefined \/ ~NGt(release[2].date, start)

\* the test that skips a pair
Skipped(release, start) ==
    release[2] = Undefined \/ NLt(release[2].date, start)

\* the tag test with >= in place of >
AtOrAfterEnd(date, end) ==
    ~date.nan /\ ~end.nan /\ date.num * end.den >= end.num * date.den

\* the test that skips a tag record
AfterEnd(date, end) == NGt(date, end)

RECURSIVE SelectFrom(_, _, _, _, _)
\* the tag loop of calculateCycleTime from line i on
SelectFrom(tagLines, i, end, regexp, acc) ==
    IF i > Len(tagLines) THEN acc
    ELSE LET tagByDate == parseTagLine(tagLines[i])
         IN  IF tagByDate = Undefined
                THEN SelectFrom(tagLines, i + 1, end, regexp, acc)
             ELSE IF AfterEnd(tagByDate.date, end)
                THEN SelectFrom(tagLines, i + 1, end, regexp, acc)
             ELSE IF Matches(tagByDate.tag, regexp)
                THEN SelectFrom(tagLines, i + 1, end, regexp, Append(acc, tagByDate))
             ELSE SelectFrom(tagLines, i + 1, end, regexp, acc)

\* the end of execute: calculateCycleTime returns and the summary is printed
Summary(s) ==
    LET cycleTime == ToHours(mean(s.durationsData))
        res == [cycleTime |-> cycleTime,
                numberOfReleases |-> s.numberOfReleasesInPeriod]
    IN  [s EXCEPT !.result = res,
                  !.out = Append(@, [kind |-> "summary",
                                     from |-> s.startDate, to |-> s.endDate,
                                     releases |-> res.numberOfReleases,
                                     hours |-> ToFixed(cycleTime),
                                     days |-> ToFixed(NDiv(cycleTime, 24))]),
                  !.pc = "exited"]

RECURSIVE RunPairs(_, _)
\* the pair loop of calculateCycleTime from pair i on, up to the next cherry
RunPairs(s, i) ==
    IF i > Len(zippedReleases(s)) THEN Summary(s)
    ELSE LET release == zippedReleases(s)[i]
         IN  IF Skipped(release, s.startDate) THEN RunPairs(s, i + 1)
             ELSE Exec([s EXCEPT !.zi = i], "cherry",
                       <<release[1].tag, release[2].tag>>, "awaitCherry")

\* commitDates.map(date => Math.abs(releaseDate - date))
Durations(dates, releaseDate) ==
    [k \in 1..Len(dates) |-> NAbs(NSub(releaseDate, dates[k]))]

\* the body of the pair loop printing no line for a pair without durations
FinishPairQuietWhenEmpty(s) ==
    LET release == zippedReleases(s)[s.zi]
        durations == Durations(s.commitDates, release[2].date)
        releaseCycleTime == ToFixed(ToHours(mean(durations)))
    IN  RunPairs(
          [s EXCEPT !.durationsData = @ \o durations,
                    !.numberOfReleasesInPeriod = @ + 1,
                    !.out = IF Len(durations) = 0 THEN @
                            ELSE Append(@, [kind |-> "pair",
                                            old |-> release[1].tag,
                                            cur |-> release[2].tag,
                                            hours |-> releaseCycleTime])],
          s.zi + 1)

\* getDurationsForRelease returns: the rest of the body of the pair loop
FinishPair(s) ==
    LET release == zippedReleases(s)[s.zi]
        durations == Durations(s.commitDates, release[2].date)
        releaseCycleTime == ToFixed(ToHours(mean(durations)))
    IN  RunPairs(
          [s EXCEPT !.durationsData = @ \o durations,
                    !.numberOfReleasesInPeriod = @ + 1,
                    !.out = Append(@, [kind |-> "pair",
                                       old |-> release[1].tag,
                                       cur |-> release[2].tag,
                                       hours |-> releaseCycleTime])],
          s.zi + 1)

\* cherryCommit.startsWith("+")
IsAdded(cherryCommit) == Len(cherryCommit) > 0 /\ cherryCommit[1] = "+"

RECURSIVE RunCommits(_, _)
\* the commit loop of getDurationsForRelease from line j on, up to the next log
RunCommits(s, j) ==
    IF j > Len(s.commitsDiff) THEN FinishPair(s)
    ELSE IF IsAdded(s.commitsDiff[j])
        THEN Exec([s EXCEPT !.ci = j], "log", <<At(s.commitsDiff[j], 2)>>, "awaitLog")
    ELSE RunCommits(s, j + 1)

\* execute after the tag listing: the end-date check, then calculateCycleTime
\* up to its first cherry
AfterTags(s, releaseTags) ==
    IF argv.endDate = ""
      THEN Throw(s, "Couldn't parse end-date argument")
    ELSE RunPairs(
           [s EXCEPT !.releaseCommits =
               SelectFrom(SplitLines(releaseTags), 1, s.endDate, argv.regexp, <<>>)],
           1)

\* getDurationsForRelease after the cherry: the commit loop starts
AfterCherry(s, stdout) ==
    RunCommits([s EXCEPT !.commitsDiff = SplitLines(stdout), !.commitDates = <<>>], 1)

\* getCommitTime after the log: the commit's time is kept, the loop goes on
AfterLog(s, stdout) ==
    RunCommits([s EXCEPT !.commitDates = Append(@, DateParse(stdout))], s.ci + 1)

\* runShellCommand printing the error without rejecting: the promise resolves
\* with the empty stdout and the caller goes on
RejectedButResolved(s) ==
    LET f == LogError([s EXCEPT !.calls[Len(s.calls)].status = "failed"],
                      "Error: Command failed")
    IN  CASE s.pc = "awaitTags" -> AfterTags(f, <<>>)
          [] s.pc = "awaitCherry" -> AfterCherry(f, <<>>)
          [] OTHER -> AfterLog(f, "")

\* exec calls back with an error: runShellCommand prints it and rejects, the
\* rejection passes through every await up to the handler's catch
Rejected(s) ==
    Throw(LogError([s EXCEPT !.calls[Len(s.calls)].status = "failed"],
                   "Error: Command failed"),
          "Error: Command failed")

(***************************************************************************)
(* The actions.                                                            *)
(***************************************************************************)
\* yargs refuses a command line without a demanded option: it prints the
\* usage and the error and exits with status 1, and the handler never runs
YargsFail ==
    /\ pc = "cli"
    /\ argv.startDate = Missing \/ argv.regexp = Missing
    /\ Becomes([LogError(Cur, "Missing required argument") EXCEPT
                  !.exitCode = 1, !.pc = "exited"])

\* the handler calls execute, which runs up to the tag listing
Execute ==
    /\ pc = "cli"
    /\ argv.startDate # Missing /\ argv.regexp # Missing
    /\ LET s == [Cur EXCEPT !.startDate = DateParse(argv.startDate),
                            !.endDate = DateParse(argv.endDate)]
       IN  IF argv.path = ""
             THEN Becomes(Throw(Cur, "No path to the Git repository provided"))
           ELSE IF Falsy(s.startDate)
             THEN Becomes(Throw(s, "Couldn't parse start-date argument"))
           ELSE Becomes(Exec(s, "for-each-ref",
                             <<IF argv.lightweight THEN "creatordate" ELSE "taggerdate">>,
                             "awaitTags"))

\* the tag listing returns
TagsReturn ==
    /\ pc = "awaitTags"
    /\ \E releaseTags \in TagLists :
         Becomes(AfterTags(Resolved(Cur, releaseTags), releaseTags))

\* git cherry returns
CherryReturn ==
    /\ pc = "awaitCherry"
    /\ \E stdout \in CherryOutputs :
         Becomes(AfterCherry(Resolved(Cur, stdout), stdout))

\* git log returns
LogReturn ==
    /\ pc = "awaitLog"
    /\ LET stdout == CommitDate(calls[Len(calls)].args[1])
       IN  Becomes(AfterLog(Resolved(Cur, stdout), stdout))

\* the command that is running fails
CallFails ==
    /\ pc \in {"awaitTags", "awaitCherry", "awaitLog"}
    /\ Becomes(Rejected(Cur))

Next ==
    \/ YargsFail
    \/ Execute
    \/ TagsReturn
    \/ CherryReturn
    \/ LogReturn
    \/ CallFails

Spec == Init /\ [][Next]_vars

(***************************************************************************)
(* What a run shows from outside: the log of commands and the console.     *)
(***************************************************************************)
\* calculateCycleTime was entered: the tag listing came back and execute did
\* not throw on the end date
Calculating == Len(calls) >= 1 /\ calls[1].status = "ok" /\ argv.endDate # ""

\* the lines calculateCycleTime was given
TagLinesSeen == SplitLines(calls[1].stdout)

\* the elements of seq at the indices of I, ascending
Pick(seq, I) ==
    [k \in 1..Cardinality(I) |->
        seq[CHOOSE i \in I : Cardinality({j \in I : j < i}) = k - 1]]

\* the cherry commands started so far, in order
CherryCalls == SelectSeq(calls, LAMBDA c : c.cmd = "cherry")

\* the <<upstream, head>> of the pairs admitted so far, in order
AdmittedPairs == [k \in 1..Len(CherryCalls) |-> CherryCalls[k].args]

\* the per-pair lines printed so far, in order
PairLines == SelectSeq(out, LAMBDA l : l.kind = "pair")

SummaryPrinted == \E k \in 1..Len(out) : out[k].kind = "summary"

ErrorPrinted == \E k \in 1..Len(out) : out[k].kind = "error"

SomeCallFailed == \E k \in 1..Len(calls) : calls[k].status = "failed"

IsPrefix(a, b) == Len(a) <= Len(b) /\ \A k \in 1..Len(a) : a[k] = b[k]

\* d is an instant strictly after the instant e
StrictlyAfter(d, e) == ~d.nan /\ ~e.nan /\ d.num > e.num

(***************************************************************************)
(* C3: the selected release sequence is exactly the subsequence, in input  *)
(* order, of the non-empty tag lines whose name matches the pattern and    *)
(* whose timestamp is not strictly after endDate.                          *)
(***************************************************************************)
KeptLines ==
    {i \in 1..Len(TagLinesSeen) :
        /\ Len(TagLinesSeen[i]) > 0
        /\ Matches(TagLinesSeen[i][1], argv.regexp)
        /\ ~StrictlyAfter(DateParse(TagLinesSeen[i][2]), DateParse(argv.endDate))}

\* C3: releaseCommits is the records of the kept lines, in input order
C3_SelectionIsFilteredSubsequence ==
    Calculating =>
      LET kept == Pick(TagLinesSeen, KeptLines)
      IN  releaseCommits =
            [k \in 1..Len(kept) |->
                [tag |-> kept[k][1], date |-> DateParse(kept[k][2])]]

\* a run given two matching tags around one that fails the pattern, the last
\* tag exactly at endDate: the first and the third are selected, in that order
C3_Witness ==
    /\ Calculating
    /\ Len(calls[1].stdout) = 3
    /\ KeptLines = {1, 3}
    /\ ~Matches(TagLinesSeen[2][1], argv.regexp)
    /\ DateParse(TagLinesSeen[3][2]) = endDate
    /\ releaseCommits[1].tag = "v1" /\ releaseCommits[2].tag = "v3"

(***************************************************************************)
(* C1: when every tag date and the window parse, the pairs admitted are    *)
(* exactly the consecutive pairs of the selected sequence whose later      *)
(* release lies in [startDate, endDate], in order, and numberOfReleases is *)
(* their number.                                                           *)
(***************************************************************************)
AllTagDatesParse ==
    \A i \in 1..Len(calls[1].stdout) : ~DateParse(calls[1].stdout[i][2]).nan

WindowPairs ==
    LET I == {i \in 1..(Len(releaseCommits) - 1) :
                /\ startDate.num <= releaseCommits[i + 1].date.num
                /\ releaseCommits[i + 1].date.num <= endDate.num}
    IN  [k \in 1..Cardinality(I) |->
            LET i == CHOOSE i \in I : Cardinality({j \in I : j < i}) = k - 1
            IN  <<releaseCommits[i].tag, releaseCommits[i + 1].tag>>]

\* C1: the admitted pairs are the consecutive pairs whose later release is in
\* the window, in order, and numberOfReleases counts them
C1_AdmittedPairsAreWindowPairs ==
    (Calculating /\ AllTagDatesParse /\ ~startDate.nan /\ ~endDate.nan) =>
      /\ IsPrefix(AdmittedPairs, WindowPairs)
      /\ result # Undefined =>
            /\ AdmittedPairs = WindowPairs
            /\ result.numberOfReleases = Len(WindowPairs)

\* three releases, the first before startDate: two pairs admitted
C1_Witness ==
    /\ Calculating /\ AllTagDatesParse /\ ~endDate.nan
    /\ result # Undefined
    /\ Len(releaseCommits) = 3
    /\ NLt(releaseCommits[1].date, startDate)
    /\ result.numberOfReleases = 2
    /\ AdmittedPairs = << <<"v1", "v2">>, <<"v2", "v3">> >>

(***************************************************************************)
(* C9: the admitted pairs are processed one after another: the commands of *)
(* a pair have all completed when its line is printed, its line is printed *)
(* before a command of the next pair starts, every admitted pair gets      *)
(* exactly one line, and the summary comes after all of them.              *)
(***************************************************************************)
\* how many of the first n entries of seq are of the given kind
CountKind(seq, n, kind) == Cardinality({k \in 1..n : seq[k].kind = kind})

CountCmd(n, cmd) == Cardinality({k \in 1..n : calls[k].cmd = cmd})

\* the shas of the log commands started for the n-th admitted pair, in order
LogsOfPair(n) ==
    LET mine == {k \in 1..Len(calls) :
                    calls[k].cmd = "log" /\ CountCmd(k, "cherry") = n}
    IN  [j \in 1..Cardinality(mine) |->
            calls[CHOOSE k \in mine : Cardinality({m \in mine : m < k}) = j - 1].args[1]]

\* the shas of the lines of a cherry output that start with +, in order
AddedShas(stdout) ==
    LET plus == SelectSeq(stdout, LAMBDA l : l[1] = "+")
    IN  [j \in 1..Len(plus) |-> plus[j][2]]

\* C9: pairs are processed strictly one after another, one line per pair,
\* the summary last
C9_PairsInSequence ==
    \* one command at a time, and only the last one can be unfinished
    /\ \A k \in 1..(Len(calls) - 1) : calls[k].status = "ok"
    \* a command of the n-th pair starts when exactly n - 1 lines are printed
    /\ \A k \in 1..Len(calls) :
          calls[k].cmd \in {"cherry", "log"} =>
            CountKind(out, calls[k].printed, "pair") = CountCmd(k, "cherry") - 1
    \* the n-th line is the line of the n-th admitted pair, printed when its
    \* cherry and the log of each of its added commits have completed
    /\ Len(PairLines) <= Len(AdmittedPairs)
    /\ \A n \in 1..Len(PairLines) :
          /\ <<PairLines[n].old, PairLines[n].cur>> = AdmittedPairs[n]
          /\ CherryCalls[n].status = "ok"
          /\ LogsOfPair(n) = AddedShas(CherryCalls[n].stdout)
          /\ \A k \in 1..Len(calls) :
                (calls[k].cmd = "log" /\ CountCmd(k, "cherry") = n) =>
                   calls[k].status = "ok"
    \* the summary is the last line, after one line for each admitted pair
    /\ SummaryPrinted =>
          /\ out[Len(out)].kind = "summary"
          /\ CountKind(out, Len(out), "summary") = 1
          /\ Len(PairLines) = Len(AdmittedPairs)
          /\ Calculating /\ AllTagDatesParse /\ ~endDate.nan =>
                Len(PairLines) = Len(WindowPairs)

\* a finished run of two admitted pairs, each with commits looked up
C9_Witness ==
    /\ SummaryPrinted
    /\ Len(PairLines) = 2
    /\ Len(LogsOfPair(1)) = 2
    /\ Len(LogsOfPair(2)) = 1

(***************************************************************************)
(* C5: when an external command fails the run aborts at that command: no   *)
(* command is started after it, the lines of the earlier pairs stay, the   *)
(* failing pair gets no line and no summary is printed.                    *)
(***************************************************************************)
\* C5: a failed command is the last command and ends the run without summary
C5_FailureAborts ==
    SomeCallFailed =>
      LET f == Len(calls)
          inPair == calls[f].cmd \in {"cherry", "log"}
      IN  /\ calls[f].status = "failed"
          /\ \A k \in 1..(f - 1) : calls[k].status = "ok"
          /\ pc = "exited"
          /\ result = Undefined
          /\ ~SummaryPrinted
          /\ Len(PairLines) = Len(AdmittedPairs) - (IF inPair THEN 1 ELSE 0)
          /\ \A n \in 1..Len(PairLines) :
                <<PairLines[n].old, PairLines[n].cur>> = AdmittedPairs[n]
          /\ \A k \in 1..Len(out) :
                k > calls[f].printed <=> out[k].kind = "error"

\* the log of a commit of the second pair fails after the first pair's line
C5_Witness ==
    /\ SomeCallFailed
    /\ calls[Len(calls)].cmd = "log"
    /\ Len(AdmittedPairs) = 2
    /\ Len(PairLines) = 1
    /\ Len(LogsOfPair(2)) = 2

(***************************************************************************)
(* C8 as amended: a data anomaly is not an error.  A run in which no pair  *)
(* is admitted, or every admitted pair has no added commit, ends with the  *)
(* summary, a not-a-number cycle time and a release count equal to the     *)
(* number of admitted pairs (zero when none is admitted, as when no tag    *)
(* matches the pattern).                                                   *)
(***************************************************************************)
DataAnomaly ==
    /\ Calculating
    /\ pc = "exited"
    /\ ~SomeCallFailed
    /\ \A n \in 1..Len(CherryCalls) : AddedShas(CherryCalls[n].stdout) = <<>>

NoTagMatches ==
    \A i \in 1..Len(calls[1].stdout) : ~Matches(calls[1].stdout[i][1], argv.regexp)

AnomalyEndsNormally ==
    /\ SummaryPrinted
    /\ ~ErrorPrinted
    /\ exitCode = 0
    /\ result # Undefined
    /\ result.cycleTime = NaN
    /\ out[Len(out)].hours = NaN
    /\ Len(PairLines) = Len(AdmittedPairs)
    /\ NoTagMatches => (result.numberOfReleases = 0 /\ PairLines = <<>>)

\* C8 (amended): a data anomaly ends normally with a not-a-number cycle time
\* and a release count equal to the number of admitted pairs
C8_AnomalyCountsAdmittedPairs ==
    DataAnomaly =>
      /\ AnomalyEndsNormally
      /\ result.numberOfReleases = Len(AdmittedPairs)
      /\ out[Len(out)].releases = Len(AdmittedPairs)

\* two pairs admitted, neither with an added commit
C8_Witness ==
    /\ DataAnomaly
    /\ Len(AdmittedPairs) = 2
    /\ CherryCalls[1].stdout = <<>>
    /\ CherryCalls[2].stdout = <<>>

\* C8 as stated: the release count of every data anomaly is zero
C8_Original_AnomalyCountIsZero ==
    DataAnomaly =>
      /\ AnomalyEndsNormally
      /\ result.numberOfReleases = 0

(***************************************************************************)
(* C4: a tag whose date does not parse is never the later release of an    *)
(* admitted pair, so it adds no release and no duration.                   *)
(***************************************************************************)
\* C4: no admitted pair has a later release whose date is not-a-number, and
\* no duration is not-a-number
C4_UnparsedDateNeverAdmitted ==
    /\ \A n \in 1..Len(AdmittedPairs) :
          \A k \in 1..Len(releaseCommits) :
            releaseCommits[k].tag = AdmittedPairs[n][2] => ~releaseCommits[k].date.nan
    /\ \A k \in 1..Len(durationsData) : ~durationsData[k].nan

(***************************************************************************)
(* C2: when no external command fails, the cycle time is the mean, over    *)
(* the added commits of all admitted pairs together, of the absolute       *)
(* difference between the later release's time and the commit's time, in   *)
(* hours; every duration is non-negative.                                  *)
(***************************************************************************)
\* the time of the release named tag
ReleaseDate(tag) ==
    (CHOOSE r \in {releaseCommits[k] : k \in 1..Len(releaseCommits)} : r.tag = tag).date

\* |release - commit| for the j-th added commit of the n-th admitted pair
DurationOf(n, j) ==
    LET release == ReleaseDate(AdmittedPairs[n][2])
        commit == DateParse(CommitDate(AddedShas(CherryCalls[n].stdout)[j]))
    IN  IF release.nan \/ commit.nan THEN NaN
        ELSE Num(IAbs(release.num - commit.num))

\* the added commits of all admitted pairs, as <<pair, commit>>
AllAdded ==
    UNION { {<<n, j>> : j \in 1..Len(AddedShas(CherryCalls[n].stdout))} :
            n \in 1..Len(CherryCalls) }

RECURSIVE Total(_)
\* the sum of the durations of a set of added commits, in milliseconds
Total(S) ==
    IF S = {} THEN 0
    ELSE LET x == CHOOSE x \in S : TRUE
         IN  DurationOf(x[1], x[2]).num + Total(S \ {x})

GrandMeanHours ==
    IF AllAdded = {} \/ \E x \in AllAdded : DurationOf(x[1], x[2]).nan THEN NaN
    ELSE Rat(Total(AllAdded), Cardinality(AllAdded) * 3600000)

\* the returned cycle time is the mean of the combined collection, whether or
\* not a duration is not-a-number
CycleTimeIsGrandMean ==
    result # Undefined =>
      /\ result.cycleTime = GrandMeanHours
      /\ Len(durationsData) = Cardinality(AllAdded)

\* C2: the returned cycle time is the mean in hours of the non-negative
\* durations of all added commits of all admitted pairs
C2_CycleTimeIsMeanOfNonNegativeDurations ==
    result # Undefined =>
      /\ \A x \in AllAdded :
            ~DurationOf(x[1], x[2]).nan /\ DurationOf(x[1], x[2]).num >= 0
      /\ \A k \in 1..Len(durationsData) :
            ~durationsData[k].nan /\ durationsData[k].num >= 0
      /\ result.cycleTime = GrandMeanHours
      /\ Len(durationsData) = Cardinality(AllAdded)

(***************************************************************************)
(* C6: every input error is found before any external command: a run that  *)
(* ends with one has started no command and printed only the error.        *)
(***************************************************************************)
InputErrors ==
    {"Missing required argument", "No path to the Git repository provided",
     "Couldn't parse start-date argument", "Couldn't parse end-date argument"}

InputErrorPrinted ==
    \E k \in 1..Len(out) : out[k].kind = "error" /\ out[k].text \in InputErrors

\* C6: a run that ends with an input error started no command and printed
\* only the error
C6_InputErrorBeforeAnyCall ==
    (pc = "exited" /\ InputErrorPrinted) => (calls = <<>> /\ Len(out) = 1)

(***************************************************************************)
(* C7: a run that fails prints the error and ends with a non-zero exit     *)
(* status; only a run that prints the summary ends with status zero.       *)
(***************************************************************************)
\* C7: a run exits with status zero exactly when it printed the summary, and
\* a failed run printed an error
C7_FailureExitsNonZero ==
    pc = "exited" =>
      \/ SummaryPrinted /\ ~ErrorPrinted /\ exitCode = 0
      \/ ~SummaryPrinted /\ ErrorPrinted /\ exitCode # 0

(***************************************************************************)
(* C10: execute raises a date error exactly when the start date does not   *)
(* parse or the end date is missing or does not parse.                     *)
(***************************************************************************)
DateErrorRaised ==
    \E k \in 1..Len(out) :
       /\ out[k].kind = "error"
       /\ out[k].text \in {"Couldn't parse start-date argument",
                            "Couldn't parse end-date argument"}

\* execute has run through its checks of the dates
DatesChecked ==
    /\ pc \notin {"cli", "awaitTags"}
    /\ argv.path # "" /\ argv.startDate # Missing /\ argv.regexp # Missing
    /\ calls # <<>> => calls[1].status = "ok"

\* C10: a date error is raised exactly when a date string does not parse
C10_DateErrorIffUnparseable ==
    DatesChecked =>
      (DateErrorRaised <=>
         \/ DateParse(argv.startDate).nan
         \/ argv.endDate = ""
         \/ DateParse(argv.endDate).nan)

=============================================================================
